---- MODULE Spec2Model ----
(***************************************************************************)
(* Model of get_pancancer_clinical_and_mutation_data.ipynb: the notebook   *)
(* that fetches the pan-cancer mutation and clinical files, loads them     *)
(* with the label file, joins them and writes the merged table.            *)
(*                                                                         *)
(* State: the three input files as published / present on disk, the local  *)
(* copies written by the download cells, the output file, and the kernel's *)
(* namespace (the data frames mutations, labels, clinical, merged).  Each  *)
(* code cell that changes state is one action, named by its position in    *)
(* the notebook (cell index in the .ipynb "cells" list).  The cells that   *)
(* only import or display (0, 6, 7, 16) change nothing and are left out.   *)
(*                                                                         *)
(* A cell that raises stops a Run-All execution (status = "failed").  The  *)
(* user may then go on by hand with the cell below (Resume), or restart    *)
(* the kernel and run the notebook again (Restart); the files on disk      *)
(* outlive the kernel.                                                     *)
(*                                                                         *)
(* The network is the environment: faultsLeft is the number of download    *)
(* failures it may still cause (0 in Spec, where every download succeeds;  *)
(* MaxFaults in SpecFetch).                                                *)
(*                                                                         *)
(* A data frame is [defined, columns, rows]; a name never assigned is a    *)
(* frame with defined = FALSE (using it raises NameError).  Row records    *)
(* carry the columns the joins read or write: of the five mutation         *)
(* columns Tumor_Sample_Barcode and Hugo_Symbol, of the nine clinical      *)
(* columns bcr_patient_barcode and pathologic_stage; the other columns     *)
(* are copied through unchanged by every cell and are not represented.     *)
(* Strings that the code slices (barcodes) are sequences of characters.    *)
(***************************************************************************)
EXTENDS Integers, Sequences, FiniteSets, TLC

VARIABLES remoteMut, remoteClin, labelsFile,
          mutFile, clinFile, outFile,
          pc, status, clean, run, downloads, faultsLeft,
          mutations, labels, clinical, merged

inputs == <<remoteMut, remoteClin, labelsFile>>
disk   == <<mutFile, clinFile, outFile>>
kernel == <<mutations, labels, clinical, merged>>
vars   == <<remoteMut, remoteClin, labelsFile, mutFile, clinFile, outFile,
            pc, status, clean, run, downloads, faultsLeft,
            mutations, labels, clinical, merged>>

---------------------------------------------------------------------------
(* Bounds of the model *)
MaxMutRows == 3
MaxLabelLines == 3
MaxClinRows == 2
MaxRuns == 2
MaxFaults == 2

(* Program constant: the slice end in parsePatientBarcode *)
PatientLen == 12

---------------------------------------------------------------------------
(* Input values *)
PatientA == <<"T","C","G","A","-","0","2","-","0","0","0","A">>
PatientB == <<"T","C","G","A","-","0","2","-","0","0","0","B">>
PatientC == <<"T","C","G","A","-","0","2","-","0","0","0","C">>
ShortCode == <<"T","C","G","A","-","0","2">>

(* sample barcodes: longer than, exactly, and shorter than 12 characters *)
SampleBarcodes == { PatientA \o <<"-","0","1">>, PatientB \o <<"-","0","1">>,
                    PatientC, ShortCode }

ClinicalRecords ==
  { [bcr_patient_barcode |-> PatientA, pathologic_stage |-> "Stage I"],
    [bcr_patient_barcode |-> PatientA, pathologic_stage |-> "Stage II"],
    [bcr_patient_barcode |-> PatientC, pathologic_stage |-> "Stage I"] }

Min(a, b) == IF a < b THEN a ELSE b

SeqsUpTo(S, n) == UNION { [1..k -> S] : k \in 0..n }

MutUsecols == {"Tumor_Sample_Barcode", "Hugo_Symbol", "Variant_Classification",
               "Variant_Type", "Chromosome"}

ClinUsecols == {"bcr_patient_barcode", "gender", "vital_status", "days_to_birth",
                "days_to_death", "age_at_initial_pathologic_diagnosis",
                "pathologic_stage", "height", "weight"}

Gene(i) == <<"GENE", i>>

(* a published mutation file: its header and its data rows *)
MafFile(header, barcodes) ==
  [header |-> header,
   rows |-> [i \in 1..Len(barcodes) |->
               [Tumor_Sample_Barcode |-> barcodes[i], Hugo_Symbol |-> Gene(i)]]]

MutationFiles ==
  { MafFile(MutUsecols, b) : b \in SeqsUpTo(SampleBarcodes, MaxMutRows) }
  \cup { MafFile(MutUsecols \ {"Chromosome"}, <<>>) }

ClinicalFiles ==
  { [header |-> ClinUsecols, rows |-> r] : r \in SeqsUpTo(ClinicalRecords, MaxClinRows) }

(* the lines of labels.txt: one cancer type per line, neighbours differ *)
LabelLine(i) == IF i % 2 = 1 THEN "LUAD" ELSE "BRCA"
LabelFiles == { [i \in 1..m |-> LabelLine(i)] : m \in 0..MaxLabelLines }

---------------------------------------------------------------------------
(* Files on disk and frames in the kernel *)
Absent == [present |-> FALSE, complete |-> FALSE, header |-> {}, rows |-> <<>>]
Stored(f) == [present |-> TRUE, complete |-> TRUE, header |-> f.header, rows |-> f.rows]
Partial(f, k) ==
  [present |-> TRUE, complete |-> FALSE, header |-> f.header, rows |-> SubSeq(f.rows, 1, k)]

NoFrame == [defined |-> FALSE, columns |-> {}, rows |-> <<>>]
Frame(cols, rows) == [defined |-> TRUE, columns |-> cols, rows |-> rows]

NoOutput == [present |-> FALSE, rows |-> <<>>]

Cells == <<2, 3, 5, 8, 10, 12, 14, 17, 18, 19, 20>>
Done == 21
NextCell(c) ==
  IF c = 20 THEN Done
  ELSE Cells[1 + CHOOSE i \in 1..Len(Cells) : Cells[i] = c]

---------------------------------------------------------------------------
(* Library calls, as the notebook uses them *)

(* mutant: the presence test is lost, every run downloads *)
isfileNever(f) == FALSE

(* mutant: a file counts as present only when its download completed *)
isfileComplete(f) == f.present /\ f.complete

(* os.path.isfile(filename) *)
isfile(f) == f.present

(* mutant: the slice is one character short *)
parsePatientBarcodeShort(tumor_sample_barcode) ==
  SubSeq(tumor_sample_barcode, 1, Min(PatientLen - 1, Len(tumor_sample_barcode)))

(* mutations.Tumor_Sample_Barcode[0:12]: a Python slice stops at the end of
   a shorter string instead of raising *)
parsePatientBarcode(tumor_sample_barcode) ==
  SubSeq(tumor_sample_barcode, 1, Min(PatientLen, Len(tumor_sample_barcode)))

(* df[name] = np.arange(len(df)) *)
WithArange(df, name) ==
  Frame(df.columns \cup {name},
        [i \in 1..Len(df.rows) |-> df.rows[i] @@ (name :> (i - 1))])

(* pd.read_csv("labels.txt", sep='\t') with the default header=0, then the
   rename of the only column and the row column: the first line of the file
   becomes the column name that the rename overwrites *)
ReadLabels(lines) ==
  WithArange(Frame({"cancer_type"},
                   [i \in 1..(Len(lines) - 1) |-> [cancer_type |-> lines[i + 1]]]),
             "row")

(* mutant: every row of right pairs with every row of left (no key test) *)
MatchesAll(l, right, on) ==
  [j \in 1..Len(right.rows) |-> l @@ right.rows[j]]

(* mutant: a row of left without a partner is kept (how='left') *)
MatchesLeft(l, right, on) ==
  LET hit(r) == r[on] = l[on]
      m == SelectSeq(right.rows, hit)
  IN IF m = <<>> THEN <<l>> ELSE [j \in 1..Len(m) |-> l @@ m[j]]

(* the rows of right that pair with one row of left *)
Matches(l, right, on) ==
  LET hit(r) == r[on] = l[on]
      m == SelectSeq(right.rows, hit)
  IN [j \in 1..Len(m) |-> l @@ m[j]]

RECURSIVE MergeRows(_, _, _, _)
MergeRows(left, right, on, i) ==
  IF i > Len(left.rows) THEN <<>>
  ELSE Matches(left.rows[i], right, on) \o MergeRows(left, right, on, i + 1)

(* left.merge(right, left_on=on, right_on=on): pandas' default how='inner' *)
merge(left, right, on) ==
  Frame(left.columns \cup right.columns, MergeRows(left, right, on, 1))

(* mutant: only the first row is written *)
to_csvHead(df) ==
  [present |-> TRUE,
   rows |-> [i \in 1..Min(1, Len(df.rows)) |-> df.rows[i] @@ ("index" :> (i - 1))]]

(* merged.to_csv(name): every row, behind a leading index column *)
to_csv(df) ==
  [present |-> TRUE,
   rows |-> [i \in 1..Len(df.rows) |-> df.rows[i] @@ ("index" :> (i - 1))]]

(* what urllib.request.urlretrieve can do: fetch the whole resource, fail
   before the local file is opened, or fail after part of it is written *)
DownloadOutcomes == {"ok", "refused", "interrupted"}

---------------------------------------------------------------------------
(* the state of a freshly started kernel in a directory that holds only
   labels.txt *)
Fresh ==
  /\ mutFile = Absent
  /\ clinFile = Absent
  /\ outFile = NoOutput
  /\ pc = 2
  /\ status = "running"
  /\ clean = TRUE
  /\ run = 1
  /\ downloads = [mut |-> 0, clin |-> 0]
  /\ mutations = NoFrame
  /\ labels = NoFrame
  /\ clinical = NoFrame
  /\ merged = NoFrame

(* every input table within the bounds, on a network that does not fail *)
Init ==
  /\ remoteMut \in MutationFiles
  /\ remoteClin \in ClinicalFiles
  /\ labelsFile \in LabelFiles
  /\ faultsLeft = 0
  /\ Fresh

(* a few input tables, on a network that may fail MaxFaults times *)
FetchMutationFiles ==
  { MafFile(MutUsecols, <<PatientA \o <<"-","0","1">> >>),
    MafFile(MutUsecols \ {"Chromosome"}, <<>>) }
FetchClinicalFile ==
  [header |-> ClinUsecols,
   rows |-> << [bcr_patient_barcode |-> PatientA, pathologic_stage |-> "Stage I"],
               [bcr_patient_barcode |-> PatientA, pathologic_stage |-> "Stage II"] >>]

InitFetch ==
  /\ remoteMut \in FetchMutationFiles
  /\ remoteClin = FetchClinicalFile
  /\ labelsFile = <<"LUAD", "BRCA">>
  /\ faultsLeft = MaxFaults
  /\ Fresh

(* the cell at c is the next one to execute *)
At(c) == pc = c /\ status = "running"

(* the cell raised: execution stops at it, the namespace is as before *)
Raise ==
  /\ status' = "failed"
  /\ UNCHANGED <<pc, clean, run>>

(* the network fails during a download *)
Fault ==
  /\ faultsLeft > 0
  /\ faultsLeft' = faultsLeft - 1

Advance ==
  /\ pc' = NextCell(pc)
  /\ UNCHANGED <<status, clean, run>>

(* cell 2 *)
FetchMutations ==
  /\ At(2)
  /\ IF isfile(mutFile)
     THEN /\ Advance
          /\ UNCHANGED <<mutFile, downloads, faultsLeft>>
     ELSE /\ downloads' = [downloads EXCEPT !.mut = @ + 1]
          /\ \E outcome \in DownloadOutcomes :
               \/ /\ outcome = "ok"
                  /\ mutFile' = Stored(remoteMut)
                  /\ Advance
                  /\ UNCHANGED faultsLeft
               \/ /\ outcome = "refused"
                  /\ Fault
                  /\ mutFile' = mutFile
                  /\ Raise
               \/ /\ outcome = "interrupted"
                  /\ Fault
                  /\ mutFile' = Partial(remoteMut, 0)
                  /\ Raise
  /\ UNCHANGED <<inputs, clinFile, outFile, kernel>>

(* cell 3 *)
FetchClinical ==
  /\ At(3)
  /\ IF isfile(clinFile)
     THEN /\ Advance
          /\ UNCHANGED <<clinFile, downloads, faultsLeft>>
     ELSE /\ downloads' = [downloads EXCEPT !.clin = @ + 1]
          /\ \E outcome \in DownloadOutcomes :
               \/ /\ outcome = "ok"
                  /\ clinFile' = Stored(remoteClin)
                  /\ Advance
                  /\ UNCHANGED faultsLeft
               \/ /\ outcome = "refused"
                  /\ Fault
                  /\ clinFile' = clinFile
                  /\ Raise
               \/ /\ outcome = "interrupted"
                  /\ Fault
                  /\ \E k \in 0..(Len(remoteClin.rows) - 1) :
                       clinFile' = Partial(remoteClin, k)
                  /\ Raise
  /\ UNCHANGED <<inputs, mutFile, outFile, kernel>>

(* cell 5 *)
LoadMutations ==
  /\ At(5)
  /\ IF isfile(mutFile) /\ mutFile.complete /\ MutUsecols \subseteq mutFile.header
     THEN /\ mutations' = Frame(MutUsecols, mutFile.rows)
          /\ Advance
     ELSE /\ Raise
          /\ UNCHANGED mutations
  /\ UNCHANGED <<inputs, disk, downloads, faultsLeft, labels, clinical, merged>>

(* cell 8 *)
SetMutationsIndex ==
  /\ At(8)
  /\ IF mutations.defined
     THEN /\ mutations' = WithArange(mutations, "row")
          /\ Advance
     ELSE /\ Raise
          /\ UNCHANGED mutations
  /\ UNCHANGED <<inputs, disk, downloads, faultsLeft, labels, clinical, merged>>

(* cell 10 *)
LoadLabels ==
  /\ At(10)
  /\ IF Len(labelsFile) > 0
     THEN /\ labels' = ReadLabels(labelsFile)
          /\ Advance
     ELSE /\ Raise
          /\ UNCHANGED labels
  /\ UNCHANGED <<inputs, disk, downloads, faultsLeft, mutations, clinical, merged>>

(* cell 12 *)
MergeLabels ==
  /\ At(12)
  /\ IF /\ mutations.defined /\ labels.defined
        /\ "row" \in mutations.columns /\ "row" \in labels.columns
     THEN /\ mutations' = merge(mutations, labels, "row")
          /\ Advance
     ELSE /\ Raise
          /\ UNCHANGED mutations
  /\ UNCHANGED <<inputs, disk, downloads, faultsLeft, labels, clinical, merged>>

(* cell 14 *)
LoadClinical ==
  /\ At(14)
  /\ IF isfile(clinFile) /\ ClinUsecols \subseteq clinFile.header
     THEN /\ clinical' = Frame(ClinUsecols, clinFile.rows)
          /\ Advance
     ELSE /\ Raise
          /\ UNCHANGED clinical
  /\ UNCHANGED <<inputs, disk, downloads, faultsLeft, mutations, labels, merged>>

(* cell 17: reads mutations.bcr_patient_barcode and clinical.bcr_patient_barcode;
   missing_count is printed and not used again *)
CountMissing ==
  /\ At(17)
  /\ IF /\ mutations.defined /\ "bcr_patient_barcode" \in mutations.columns
        /\ clinical.defined
     THEN Advance
     ELSE Raise
  /\ UNCHANGED <<inputs, disk, downloads, faultsLeft, kernel>>

(* cell 18 *)
DerivePatientBarcode ==
  /\ At(18)
  /\ IF mutations.defined /\ "Tumor_Sample_Barcode" \in mutations.columns
     THEN /\ mutations' =
               Frame((mutations.columns \cup {"bcr_patient_barcode"})
                        \ {"Tumor_Sample_Barcode"},
                     [i \in 1..Len(mutations.rows) |->
                        LET r == mutations.rows[i]
                            k == parsePatientBarcode(r.Tumor_Sample_Barcode)
                        IN [f \in (DOMAIN r \cup {"bcr_patient_barcode"})
                                    \ {"Tumor_Sample_Barcode"} |->
                              IF f = "bcr_patient_barcode" THEN k ELSE r[f]]])
          /\ Advance
     ELSE /\ Raise
          /\ UNCHANGED mutations
  /\ UNCHANGED <<inputs, disk, downloads, faultsLeft, labels, clinical, merged>>

(* cell 19 *)
MergeClinical ==
  /\ At(19)
  /\ IF /\ mutations.defined /\ clinical.defined
        /\ "bcr_patient_barcode" \in mutations.columns
        /\ "bcr_patient_barcode" \in clinical.columns
     THEN /\ merged' = merge(mutations, clinical, "bcr_patient_barcode")
          /\ Advance
     ELSE /\ Raise
          /\ UNCHANGED merged
  /\ UNCHANGED <<inputs, disk, downloads, faultsLeft, mutations, labels, clinical>>

(* cell 20 *)
WriteMerged ==
  /\ At(20)
  /\ IF merged.defined
     THEN /\ outFile' = to_csv(merged)
          /\ Advance
     ELSE /\ Raise
          /\ UNCHANGED outFile
  /\ UNCHANGED <<inputs, mutFile, clinFile, downloads, faultsLeft, kernel>>

(* after a cell raised, the user executes the cell below it by hand *)
Resume ==
  /\ status = "failed"
  /\ status' = "running"
  /\ pc' = NextCell(pc)
  /\ clean' = FALSE
  /\ UNCHANGED <<inputs, disk, downloads, faultsLeft, kernel, run>>

(* the kernel is restarted and the notebook run again from the top *)
Restart ==
  /\ status = "failed" \/ pc = Done
  /\ run < MaxRuns
  /\ run' = run + 1
  /\ pc' = 2
  /\ status' = "running"
  /\ clean' = TRUE
  /\ mutations' = NoFrame
  /\ labels' = NoFrame
  /\ clinical' = NoFrame
  /\ merged' = NoFrame
  /\ UNCHANGED <<inputs, disk, downloads, faultsLeft>>

Next ==
  \/ FetchMutations
  \/ FetchClinical
  \/ LoadMutations
  \/ SetMutationsIndex
  \/ LoadLabels
  \/ MergeLabels
  \/ LoadClinical
  \/ CountMissing
  \/ DerivePatientBarcode
  \/ MergeClinical
  \/ WriteMerged
  \/ Resume
  \/ Restart

Spec == Init /\ [][Next]_vars

SpecFetch == InitFetch /\ [][Next]_vars

---------------------------------------------------------------------------
(* Properties *)

HasColumn(df, c) == df.defined /\ c \in df.columns

(* the sample barcode that the mutation file holds for a mutations row *)
BarcodeOf(r) == mutFile.rows[r.row + 1].Tumor_Sample_Barcode

(* key is the first PatientLen characters of s, or all of s when s is shorter *)
IsPatientKey(key, s) ==
  /\ Len(key) = (IF Len(s) < PatientLen THEN Len(s) ELSE PatientLen)
  /\ \A i \in 1..Len(key) : key[i] = s[i]

(* number of positions of the sequence q that hold v *)
Occurrences(q, v) == Cardinality({k \in 1..Len(q) : q[k] = v})

(* C1: when the mutation table has N rows and the label table has M rows with
   N # M, the run fails: the positional join never completes on tables of
   different length. *)
C1_LengthMismatchFails ==
  HasColumn(mutations, "cancer_type") => Len(mutFile.rows) = Len(labels.rows)

(* C2: for a mutation file with K data rows and a label file with K lines, every
   row of the written output carries the cancer type found at the line of the
   label file that has the position of its mutation row, and exactly the
   mutation rows whose patient key has no clinical record are missing. *)
C2_EndToEndLabels ==
  (outFile.present /\ Len(remoteMut.rows) = Len(labelsFile)) =>
    /\ \A k \in 1..Len(outFile.rows) :
         outFile.rows[k].cancer_type = labelsFile[outFile.rows[k].row + 1]
    /\ {outFile.rows[k].row + 1 : k \in 1..Len(outFile.rows)}
         = {i \in 1..Len(remoteMut.rows) :
              \E j \in 1..Len(remoteClin.rows) :
                IsPatientKey(remoteClin.rows[j].bcr_patient_barcode,
                             remoteMut.rows[i].Tumor_Sample_Barcode)}

(* C3 as stated: for all inputs, clinical tables with repeated patient_barcode
   included, the merged output has at most as many rows as the mutation table. *)
C3_OutputAtMostMutations ==
  merged.defined => Len(merged.rows) <= Len(mutFile.rows)

(* the largest number of clinical rows that share one patient_barcode *)
MaxDuplicates ==
  LET n(j) == Cardinality({j2 \in 1..Len(clinical.rows) :
                 clinical.rows[j2].bcr_patient_barcode
                   = clinical.rows[j].bcr_patient_barcode})
  IN IF clinical.rows = <<>> THEN 0
     ELSE CHOOSE m \in {n(j) : j \in 1..Len(clinical.rows)} :
            \A j \in 1..Len(clinical.rows) : n(j) <= m

(* C3 amended: the merged output has at most (rows of the mutation table) times
   (largest number of clinical rows sharing one patient_barcode) rows, hence at
   most as many rows as the mutation table when no patient_barcode repeats. *)
C3_OutputBound ==
  merged.defined =>
    /\ Len(merged.rows) <= Len(mutFile.rows) * MaxDuplicates
    /\ MaxDuplicates <= 1 => Len(merged.rows) <= Len(mutFile.rows)

(* C3 witness: a merge against a clinical table with a repeated patient_barcode
   that produced more rows than the mutation table has *)
C3_Witness ==
  /\ merged.defined
  /\ MaxDuplicates = 2
  /\ Len(merged.rows) > Len(mutFile.rows)

(* the pairs (mutation-label record, clinical record) with equal patient_barcode *)
KeyPairs ==
  {p \in (1..Len(mutations.rows)) \X (1..Len(clinical.rows)) :
     mutations.rows[p[1]].bcr_patient_barcode
       = clinical.rows[p[2]].bcr_patient_barcode}

(* the output row of one pair: the columns of both records *)
Joined(m, c) ==
  [f \in DOMAIN m \cup DOMAIN c |-> IF f \in DOMAIN m THEN m[f] ELSE c[f]]

(* C4: the key join is an inner join on patient_barcode: the merged table holds
   one row for every (mutation-label record, clinical record) pair with equal
   patient_barcode and no other row. *)
C4_InnerJoin ==
  merged.defined =>
    /\ Len(merged.rows) = Cardinality(KeyPairs)
    /\ \A k \in 1..Len(merged.rows) :
         \E p \in KeyPairs :
           merged.rows[k] = Joined(mutations.rows[p[1]], clinical.rows[p[2]])
    /\ \A p \in KeyPairs :
         Occurrences(merged.rows, Joined(mutations.rows[p[1]], clinical.rows[p[2]]))
           = Cardinality({q \in KeyPairs :
                            /\ q[1] = p[1]
                            /\ clinical.rows[q[2]] = clinical.rows[p[2]]})

(* C4 witness: a merge in which one mutation-label record met two clinical rows
   and gave two output rows, and another record met none *)
C4_Witness ==
  /\ merged.defined
  /\ Len(merged.rows) = 2
  /\ \E i \in 1..Len(mutations.rows) :
       Cardinality({p \in KeyPairs : p[1] = i}) = 2
  /\ \E i \in 1..Len(mutations.rows) :
       Cardinality({p \in KeyPairs : p[1] = i}) = 0

(* a download of the file was started in this step *)
DownloadStarted(which) == downloads'[which] # downloads[which]

(* C5: once a local file is present, no step downloads it again or changes its
   content, however often the fetch cells run. *)
C5_FetchIdempotent ==
  [][ /\ mutFile.present => (mutFile' = mutFile /\ ~DownloadStarted("mut"))
      /\ clinFile.present => (clinFile' = clinFile /\ ~DownloadStarted("clin")) ]_vars

(* C5 witness: a second run whose fetch cells both ran with the files present:
   each file was downloaded once, in the first run *)
C5_Witness ==
  /\ run = 2
  /\ pc = 5
  /\ mutFile.present /\ clinFile.present
  /\ downloads = [mut |-> 1, clin |-> 1]

(* C6: for a headerless label file with M lines the loader yields M records,
   and the record with row index i holds line i (0-based) of the file. *)
C6_LabelIndexing ==
  labels.defined =>
    /\ Len(labels.rows) = Len(labelsFile)
    /\ \A i \in 1..Len(labels.rows) :
         /\ labels.rows[i].row = i - 1
         /\ i <= Len(labelsFile) => labels.rows[i].cancer_type = labelsFile[i]

(* C7: after the derivation every record's patient_barcode is the first 12
   characters of its sample barcode, the whole barcode when that is shorter;
   equal sample barcodes give equal keys; the sample barcode column is gone;
   and the derivation cell does not raise on a table that has the column. *)
C7_PatientKey ==
  /\ HasColumn(mutations, "bcr_patient_barcode") =>
       /\ "Tumor_Sample_Barcode" \notin mutations.columns
       /\ \A k \in 1..Len(mutations.rows) :
            /\ "Tumor_Sample_Barcode" \notin DOMAIN mutations.rows[k]
            /\ IsPatientKey(mutations.rows[k].bcr_patient_barcode,
                            BarcodeOf(mutations.rows[k]))
       /\ \A k1, k2 \in 1..Len(mutations.rows) :
            BarcodeOf(mutations.rows[k1]) = BarcodeOf(mutations.rows[k2])
              => mutations.rows[k1].bcr_patient_barcode
                   = mutations.rows[k2].bcr_patient_barcode
  /\ (pc = 18 /\ status = "failed") => ~HasColumn(mutations, "Tumor_Sample_Barcode")

(* C7 witness: keys derived for a barcode shorter than 12 characters and for a
   barcode longer than 12 characters *)
C7_Witness ==
  /\ HasColumn(mutations, "bcr_patient_barcode")
  /\ \E k \in 1..Len(mutations.rows) : Len(BarcodeOf(mutations.rows[k])) < PatientLen
  /\ \E k \in 1..Len(mutations.rows) : Len(BarcodeOf(mutations.rows[k])) > PatientLen

(* C8: the output file changes only in the step of the last cell, once per run,
   after both joins, and then holds every row of the merged table; a cell that
   raises leaves the file as it was, and a Run-All execution that has failed
   executes nothing more until the kernel is restarted. *)
C8_AllOrNothing ==
  [][ /\ outFile' # outFile =>
           /\ pc = 20 /\ status = "running" /\ pc' = Done
           /\ HasColumn(merged, "cancer_type")
           /\ HasColumn(merged, "pathologic_stage")
           /\ outFile'.present
           /\ Len(outFile'.rows) = Len(merged.rows)
           /\ \A k \in 1..Len(merged.rows) :
                /\ outFile'.rows[k].index = k - 1
                /\ \A f \in DOMAIN merged.rows[k] :
                     outFile'.rows[k][f] = merged.rows[k][f]
      /\ (status = "failed" \/ status' = "failed") => outFile' = outFile
      /\ (status = "failed" /\ clean') => run' = run + 1 ]_vars

(* C8 witness: a Run-All execution that failed, with the output file of an
   earlier execution on disk *)
C8_Witness ==
  /\ run = 2
  /\ clean
  /\ status = "failed"
  /\ outFile.present
  /\ Len(outFile.rows) = 2

IsPartial(f) == f.present /\ ~f.complete

(* C9: a local file left incomplete by an interrupted download is never
   downloaded again and never changes; the fetch cell skips it, and the loader
   reads it: the clinical loader yields the rows the incomplete file holds, the
   mutation loader reads the truncated archive and raises. *)
C9_InterruptedReused ==
  [][ /\ IsPartial(mutFile) =>
           /\ mutFile' = mutFile /\ ~DownloadStarted("mut")
           /\ pc = 2 /\ status = "running" => pc' = 3 /\ status' = "running"
           /\ pc = 5 /\ status = "running" => status' = "failed" /\ ~mutations'.defined
      /\ IsPartial(clinFile) =>
           /\ clinFile' = clinFile /\ ~DownloadStarted("clin")
           /\ pc = 3 /\ status = "running" => pc' = 5 /\ status' = "running"
           /\ pc = 14 /\ status = "running" =>
                clinical'.defined /\ clinical'.rows = clinFile.rows ]_vars

(* C9 witness: a later Run-All execution that skipped the download of the
   incomplete clinical file and loaded fewer rows than were published *)
C9_Witness ==
  /\ run = 2
  /\ clean
  /\ IsPartial(clinFile)
  /\ downloads.clin = 1
  /\ clinical.defined
  /\ Len(clinical.rows) < Len(remoteClin.rows)

(* C10: in a top-to-bottom run every cell that reads the patient_barcode column
   of the mutation table executes after the cell that derives it: when such a
   cell is about to execute, the column exists. *)
C10_KeyDerivedBeforeRead ==
  (clean /\ status = "running" /\ pc \in {17, 19} /\ mutations.defined)
    => "bcr_patient_barcode" \in mutations.columns

====
